---- MODULE Spec2Model ----
(***************************************************************************)
(* Data-access layer of the Idea Hunt API (src/database.py): the in-memory *)
(* fallback store, the networked (MongoDB) store as the driver presents    *)
(* it, the outbound serialisation and the four CRUD helpers.               *)
(*                                                                         *)
(* Values carry their Python type as a tag:                                *)
(*   [t |-> "str", v |-> n]  a string; n >= 1 is the 24-digit hexadecimal  *)
(*                           text of identifier token n, n <= 0 is other   *)
(*                           text (0 is "X", -1 is "Y")                    *)
(*   [t |-> "oid", v |-> n]  bson.ObjectId with token n                    *)
(*   [t |-> "dt",  v |-> n]  datetime at clock tick n                      *)
(*   [t |-> "none", v |-> 0] None                                          *)
(*   [t |-> "int", v |-> n]  int n                                         *)
(*   [t |-> "list", v |-> s] list, s the sequence of its values            *)
(*   [t |-> "dict", v |-> d] dict, d the function of its fields            *)
(* A document (Python dict) is a function from field names to values.      *)
(***************************************************************************)
EXTENDS Integers, Sequences, FiniteSets, TLC

VARIABLES USE_MEMORY, cols, mongo, now, issued, last, calls

vars == <<USE_MEMORY, cols, mongo, now, issued, last, calls>>

\* Bounds of the model.
MaxIds == 2
MaxClock == 1
MaxLimit == 1
MaxIn == 1

\* get_documents(..., limit: int = 100)
DefaultLimit == 100

Collections == {"idea", "comment"}
Tokens == 1..MaxIds
Clock == 0..MaxClock
Limits == 0..MaxLimit

----------------------------------------------------------------------------
\* Values

Str(n) == [t |-> "str", v |-> n]
Oid(n) == [t |-> "oid", v |-> n]
Dt(n) == [t |-> "dt", v |-> n]
None == [t |-> "none", v |-> 0]
IntV(n) == [t |-> "int", v |-> n]
ListV(xs) == [t |-> "list", v |-> xs]
DictV(d) == [t |-> "dict", v |-> d]

\* isinstance(v, str)
IsStr(v) == v.t = "str"

\* _is_object_id(val): isinstance(val, bson.ObjectId)
IsObjectId(val) == val.t = "oid"

\* str(ObjectId): the 24-digit hexadecimal text of the identifier
StrOfOid(v) == Str(v.v)

\* bson.ObjectId(s) accepts exactly the 24-digit hexadecimal strings
OidParses(s) == s.t = "str" /\ s.v >= 1
OidOfStr(s) == Oid(s.v)

\* Python dicts as functions
EmptyDoc == [k \in {} |-> None]
\* {**a, **b}
Merge(a, b) == [k \in DOMAIN a \cup DOMAIN b |-> IF k \in DOMAIN b THEN b[k] ELSE a[k]]
\* d.setdefault(k, v) on a copy
SetDefault(d, k, v) == IF k \in DOMAIN d THEN d ELSE Merge(d, k :> v)

\* Filters: {} / {"_id": val} / {"_id": {"$in": vals}}
FilterAll == [kind |-> "all", val |-> None, vals |-> <<>>]
FilterId(x) == [kind |-> "eq", val |-> x, vals |-> <<>>]
FilterIn(xs) == [kind |-> "in", val |-> None, vals |-> xs]
\* a filter on another field, {"title": val}
FilterOther(x) == [kind |-> "other", val |-> x, vals |-> <<>>]

----------------------------------------------------------------------------
\* _MemoryCollection: items is an insertion-ordered dict, a sequence of
\* [key, doc] entries with pairwise distinct keys.

ItemKeys(items) == {items[i].key : i \in 1..Len(items)}
ItemAt(items, k) == (CHOOSE i \in 1..Len(items) : items[i].key = k)
ItemGet(items, k) == items[ItemAt(items, k)].doc
\* self.items[k] = d
ItemSet(items, k, d) ==
    IF k \in ItemKeys(items)
    THEN [items EXCEPT ![ItemAt(items, k)].doc = d]
    ELSE Append(items, [key |-> k, doc |-> d])
\* del self.items[k]
ItemDel(items, k) == SelectSeq(items, LAMBDA e : e.key # k)
\* list(self.items.values())
ItemValues(items) == [i \in 1..Len(items) |-> items[i].doc]

\* insert_one(doc) with oid = os.urandom(12).hex()
insert_one(items, doc, oid) ==
    [items |-> ItemSet(items, oid, Merge(doc, "_id" :> oid)), inserted_id |-> oid]

\* find answering a set-membership filter in the mapping's own order
find_store_order(items, f) ==
    IF f.kind = "in"
    THEN LET hit == SelectSeq(items, LAMBDA e : \E j \in 1..Len(f.vals) : f.vals[j] = e.key)
         IN [j \in 1..Len(hit) |-> hit[j].doc]
    ELSE IF f.kind = "eq"
         THEN IF f.val \in ItemKeys(items) THEN <<ItemGet(items, f.val)>> ELSE <<>>
    ELSE ItemValues(items)

\* find(filter_dict)
find(items, f) ==
    IF f.kind = "all" THEN ItemValues(items)
    ELSE IF f.kind = "in"
         THEN LET hit == SelectSeq(f.vals, LAMBDA i : i \in ItemKeys(items))
              IN [j \in 1..Len(hit) |-> ItemGet(items, hit[j])]
    ELSE IF f.kind = "eq"
         THEN IF f.val \in ItemKeys(items) THEN <<ItemGet(items, f.val)>> ELSE <<>>
    ELSE ItemValues(items)

\* update_one inserting the fields when nothing matches (an upsert)
update_one_upserts(items, f, fields) ==
    IF f.kind = "in"
    THEN [items |-> items, matched_count |-> 0, modified_count |-> 0, err |-> "TypeError"]
    ELSE IF f.kind = "eq" /\ f.val \in ItemKeys(items)
    THEN [items |-> ItemSet(items, f.val, Merge(ItemGet(items, f.val), fields)),
          matched_count |-> 1, modified_count |-> 1, err |-> ""]
    ELSE IF f.kind = "eq"
    THEN [items |-> ItemSet(items, f.val, Merge(fields, "_id" :> f.val)),
          matched_count |-> 0, modified_count |-> 0, err |-> ""]
    ELSE [items |-> items, matched_count |-> 0, modified_count |-> 0, err |-> ""]

\* update_one(filter_dict, update) for update = {"$set": fields}: the only
\* payload update_document issues.  target_id = filter_dict.get("_id") is None
\* for {} and for a filter on another field; for {"_id": {"$in": [...]}} it is
\* a dict, and `target_id in self.items` raises TypeError (unhashable).
update_one(items, f, fields) ==
    IF f.kind = "in"
    THEN [items |-> items, matched_count |-> 0, modified_count |-> 0, err |-> "TypeError"]
    ELSE IF f.kind = "eq" /\ f.val \in ItemKeys(items)
    THEN [items |-> ItemSet(items, f.val, Merge(ItemGet(items, f.val), fields)),
          matched_count |-> 1, modified_count |-> 1, err |-> ""]
    ELSE [items |-> items, matched_count |-> 0, modified_count |-> 0, err |-> ""]

\* delete_one reporting a removal without removing the entry
delete_one_keeps(items, f) ==
    IF f.kind = "in"
    THEN [items |-> items, deleted_count |-> 0, err |-> "TypeError"]
    ELSE IF f.kind = "eq" /\ f.val \in ItemKeys(items)
    THEN [items |-> items, deleted_count |-> 1, err |-> ""]
    ELSE [items |-> items, deleted_count |-> 0, err |-> ""]

\* delete_one(filter_dict)
delete_one(items, f) ==
    IF f.kind = "in"
    THEN [items |-> items, deleted_count |-> 0, err |-> "TypeError"]
    ELSE IF f.kind = "eq" /\ f.val \in ItemKeys(items)
    THEN [items |-> ItemDel(items, f.val), deleted_count |-> 1, err |-> ""]
    ELSE [items |-> items, deleted_count |-> 0, err |-> ""]

\* __getattr__ without the `name not in self._cols` test: a new collection on
\* every access
MemoryDB_getattr_fresh(cs, name) == [k \in DOMAIN cs \cup {name} |-> IF k = name THEN <<>> ELSE cs[k]]

\* _MemoryDB.__getattr__(name): the collection is created on first access
MemoryDB_getattr(cs, name) == IF name \in DOMAIN cs THEN cs ELSE cs @@ (name :> <<>>)

----------------------------------------------------------------------------
\* The networked store as the pymongo driver presents it: a collection is the
\* sequence of its documents in natural (insertion) order, `_id` is its key.

MongoMatches(d, f) ==
    IF f.kind = "all" THEN TRUE
    ELSE IF f.kind = "eq" THEN d["_id"] = f.val
    ELSE IF f.kind = "in" THEN \E j \in 1..Len(f.vals) : d["_id"] = f.vals[j]
    ELSE "title" \in DOMAIN d /\ d["title"] = f.val

MongoFirst(docs, f) == CHOOSE i \in 1..Len(docs) :
    MongoMatches(docs[i], f) /\ \A j \in 1..(i - 1) : ~MongoMatches(docs[j], f)

\* Collection.insert_one(doc): a document without `_id` gets a new ObjectId,
\* a duplicate `_id` raises DuplicateKeyError
mongo_insert_one(docs, doc, oid) ==
    LET d == IF "_id" \in DOMAIN doc THEN doc ELSE Merge(doc, "_id" :> oid)
    IN IF \E i \in 1..Len(docs) : docs[i]["_id"] = d["_id"]
       THEN [docs |-> docs, inserted_id |-> None, err |-> "DuplicateKeyError"]
       ELSE [docs |-> Append(docs, d), inserted_id |-> d["_id"], err |-> ""]

\* Collection.find(filter)
mongo_find(docs, f) == SelectSeq(docs, LAMBDA d : MongoMatches(d, f))

\* Collection.update_one(filter, {"$set": fields}): `_id` is immutable
\* (WriteError), modified_count counts documents that actually changed
mongo_update_one(docs, f, fields) ==
    IF ~\E i \in 1..Len(docs) : MongoMatches(docs[i], f)
    THEN [docs |-> docs, matched_count |-> 0, modified_count |-> 0, err |-> ""]
    ELSE LET i == MongoFirst(docs, f)
             d == Merge(docs[i], fields)
         IN IF d["_id"] # docs[i]["_id"]
            THEN [docs |-> docs, matched_count |-> 0, modified_count |-> 0, err |-> "WriteError"]
            ELSE [docs |-> [docs EXCEPT ![i] = d], matched_count |-> 1,
                  modified_count |-> IF d = docs[i] THEN 0 ELSE 1, err |-> ""]

\* Collection.delete_one(filter)
mongo_delete_one(docs, f) ==
    IF ~\E i \in 1..Len(docs) : MongoMatches(docs[i], f)
    THEN [docs |-> docs, deleted_count |-> 0, err |-> ""]
    ELSE LET i == MongoFirst(docs, f)
         IN [docs |-> [j \in 1..(Len(docs) - 1) |-> IF j < i THEN docs[j] ELSE docs[j + 1]],
             deleted_count |-> 1, err |-> ""]

----------------------------------------------------------------------------
\* Utility serialization

\* _serialize(doc): an ObjectId value becomes its string form, a datetime is
\* passed through, a list gets its ObjectId elements replaced (its other
\* elements are kept as they are), a dict is serialized in turn, every other
\* value is passed through
RECURSIVE serialize(_)
serialize(doc) ==
    IF DOMAIN doc = {} THEN doc
    ELSE [k \in DOMAIN doc |->
            IF IsObjectId(doc[k]) THEN StrOfOid(doc[k])
            ELSE IF doc[k].t = "dt" THEN doc[k]
            ELSE IF doc[k].t = "list"
                 THEN ListV([i \in 1..Len(doc[k].v) |->
                               IF IsObjectId(doc[k].v[i]) THEN StrOfOid(doc[k].v[i]) ELSE doc[k].v[i]])
            ELSE IF doc[k].t = "dict" THEN DictV(serialize(doc[k].v))
            ELSE doc[k]]

\* the inbound conversion shared by get/update/delete_document:
\* if not USE_MEMORY and f.get("_id") and isinstance(f["_id"], str): try ObjectId(...)
inbound(um, f) ==
    IF ~um /\ f.kind = "eq" /\ IsStr(f.val) /\ OidParses(f.val)
    THEN FilterId(OidOfStr(f.val))
    ELSE f

\* the slice taken one element too far, docs[: limit + 1]
Take_inclusive(s, limit) == SubSeq(s, 1, IF limit + 1 < Len(s) THEN limit + 1 ELSE Len(s))

\* docs[: limit] for limit >= 0
Take(s, limit) == SubSeq(s, 1, IF limit < Len(s) THEN limit ELSE Len(s))

----------------------------------------------------------------------------
\* CRUD helpers.  Each is a function of the store st = [um, cols, mongo] (um is
\* USE_MEMORY) and of the call's arguments, and yields the store afterwards
\* with what the call returns (err is the exception raised, "" for none).

Ret(st, err, id, count, docs) ==
    [st |-> st, err |-> err, id |-> id, count |-> count, docs |-> docs]

\* create_document stamping over the caller's timestamps instead of setdefault
create_document_stamps(st, t, c, data, tok) ==
    LET payload == Merge(data, ("created_at" :> Dt(t)) @@ ("updated_at" :> Dt(t)))
    IN IF st.um
       THEN LET cs == MemoryDB_getattr(st.cols, c)
                res == insert_one(cs[c], payload, Str(tok))
            IN Ret([st EXCEPT !.cols = [cs EXCEPT ![c] = res.items]], "", res.inserted_id, 0, <<>>)
       ELSE LET res == mongo_insert_one(st.mongo[c], payload, Oid(tok))
            IN Ret([st EXCEPT !.mongo[c] = res.docs], res.err, res.inserted_id, 0, <<>>)

\* create_document(collection_name, data) at time t; tok is the token the
\* adapter draws for the new identifier
create_document(st, t, c, data, tok) ==
    LET payload == SetDefault(SetDefault(data, "created_at", Dt(t)), "updated_at", Dt(t))
    IN IF st.um
       THEN LET cs == MemoryDB_getattr(st.cols, c)
                res == insert_one(cs[c], payload, Str(tok))
            IN Ret([st EXCEPT !.cols = [cs EXCEPT ![c] = res.items]], "", res.inserted_id, 0, <<>>)
       ELSE LET res == mongo_insert_one(st.mongo[c], payload, Oid(tok))
            IN Ret([st EXCEPT !.mongo[c] = res.docs], res.err, res.inserted_id, 0, <<>>)

\* get_documents(collection_name, filter_dict, limit)
get_documents(st, c, filter_dict, limit) ==
    LET f == inbound(st.um, filter_dict)
    IN IF st.um
       THEN LET cs == MemoryDB_getattr(st.cols, c)
                docs == Take(find(cs[c], f), limit)
            IN Ret([st EXCEPT !.cols = cs], "", None, 0, [i \in 1..Len(docs) |-> serialize(docs[i])])
       ELSE LET docs == Take(mongo_find(st.mongo[c], f), limit)
            IN Ret(st, "", None, 0, [i \in 1..Len(docs) |-> serialize(docs[i])])

\* update_document letting the caller's updated_at win: {"updated_at": now, **data}
update_document_keeps(st, t, c, filter_dict, data) ==
    LET f == inbound(st.um, filter_dict)
        payload == Merge("updated_at" :> Dt(t), data)
    IN IF st.um
       THEN LET cs == MemoryDB_getattr(st.cols, c)
                res == update_one(cs[c], f, payload)
            IN Ret([st EXCEPT !.cols = [cs EXCEPT ![c] = res.items]], res.err, None,
                   res.modified_count, <<>>)
       ELSE LET res == mongo_update_one(st.mongo[c], f, payload)
            IN Ret([st EXCEPT !.mongo[c] = res.docs], res.err, None, res.modified_count, <<>>)

\* update_document(collection_name, filter_dict, data) at time t
update_document(st, t, c, filter_dict, data) ==
    LET f == inbound(st.um, filter_dict)
        payload == Merge(data, "updated_at" :> Dt(t))
    IN IF st.um
       THEN LET cs == MemoryDB_getattr(st.cols, c)
                res == update_one(cs[c], f, payload)
            IN Ret([st EXCEPT !.cols = [cs EXCEPT ![c] = res.items]], res.err, None,
                   res.modified_count, <<>>)
       ELSE LET res == mongo_update_one(st.mongo[c], f, payload)
            IN Ret([st EXCEPT !.mongo[c] = res.docs], res.err, None, res.modified_count, <<>>)

\* delete_document(collection_name, filter_dict)
delete_document(st, c, filter_dict) ==
    LET f == inbound(st.um, filter_dict)
    IN IF st.um
       THEN LET cs == MemoryDB_getattr(st.cols, c)
                res == delete_one(cs[c], f)
            IN Ret([st EXCEPT !.cols = [cs EXCEPT ![c] = res.items]], res.err, None,
                   res.deleted_count, <<>>)
       ELSE LET res == mongo_delete_one(st.mongo[c], f)
            IN Ret([st EXCEPT !.mongo[c] = res.docs], res.err, None, res.deleted_count, <<>>)

----------------------------------------------------------------------------
\* Inputs of the calls

IdStrings == {Str(n) : n \in Tokens}
\* identifiers callers pass in a filter: strings, and the value create_document
\* returned (main.py passes inserted_id straight back to get_documents)
FilterVals == IdStrings \cup {Oid(n) : n \in Tokens}
InLists == UNION {[1..k -> IdStrings] : k \in 0..MaxIn}
Filters == {FilterAll} \cup {FilterId(x) : x \in FilterVals} \cup {FilterIn(xs) : xs \in InLists}

\* Field sets callers pass.  The networked store keeps only ObjectId
\* identifiers (the data model), so a caller names `_id` on create only where
\* the adapter assigns its own token anyway.
Titled == "title" :> Str(0)
CreateInputs(um) ==
    {EmptyDoc, Titled, "updated_at" :> Dt(MaxClock)}
    \cup (IF um THEN {Titled @@ ("_id" :> x) : x \in IdStrings} ELSE {})
UpdateInputs ==
    {EmptyDoc, "title" :> Str(-1), "updated_at" :> Dt(0), "created_at" :> Dt(MaxClock)}
    \cup {"_id" :> x : x \in IdStrings}

----------------------------------------------------------------------------
\* The state machine

State == [um |-> USE_MEMORY, cols |-> cols, mongo |-> mongo]

\* What the last call returned: the exception raised ("" for none), the
\* identifier (create), the count (update, delete), the number of documents (get)
NoCall == [op |-> "init", err |-> "", id |-> None, count |-> 0, n |-> 0]
Called(op, r) == [op |-> op, err |-> r.err, id |-> r.id, count |-> r.count, n |-> Len(r.docs)]

\* Module initialisation (the try/except around the ping): USE_MEMORY is True
\* with db = _MemoryDB() when the driver or the server is unavailable
Init ==
    /\ USE_MEMORY \in BOOLEAN
    /\ cols = EmptyDoc
    /\ mongo = [c \in Collections |-> <<>>]
    /\ now = 0
    /\ issued = {}
    /\ last = NoCall
    /\ calls = <<>>

\* datetime.utcnow() advances
Tick ==
    /\ now < MaxClock
    /\ now' = now + 1
    /\ UNCHANGED <<USE_MEMORY, cols, mongo, issued, last, calls>>

Store(r) ==
    /\ cols' = r.st.cols
    /\ mongo' = r.st.mongo
    /\ UNCHANGED <<USE_MEMORY, now, calls>>

CreateDocument(c, data, tok) ==
    /\ tok \notin issued
    /\ LET r == create_document(State, now, c, data, tok)
       IN Store(r) /\ last' = Called("create", r)
    /\ issued' = issued \cup {tok}

GetDocuments(c, f, limit) ==
    /\ LET r == get_documents(State, c, f, limit)
       IN Store(r) /\ last' = Called("get", r)
    /\ UNCHANGED issued

UpdateDocument(c, f, data) ==
    /\ LET r == update_document(State, now, c, f, data)
       IN Store(r) /\ last' = Called("update", r)
    /\ UNCHANGED issued

DeleteDocument(c, f) ==
    /\ LET r == delete_document(State, c, f)
       IN Store(r) /\ last' = Called("delete", r)
    /\ UNCHANGED issued

Next ==
    \/ Tick
    \/ \E c \in Collections, data \in CreateInputs(USE_MEMORY), tok \in Tokens : CreateDocument(c, data, tok)
    \/ \E c \in Collections, f \in Filters, limit \in Limits : GetDocuments(c, f, limit)
    \/ \E c \in Collections, f \in Filters, data \in UpdateInputs : UpdateDocument(c, f, data)
    \/ \E c \in Collections, f \in Filters : DeleteDocument(c, f)

Spec == Init /\ [][Next]_vars

----------------------------------------------------------------------------
\* Views of the store used to state the properties

\* the entries of collection c, none when the collection was never touched
Items(st, c) == IF c \in DOMAIN st.cols THEN st.cols[c] ELSE <<>>

\* a document created under identifier token n is stored in collection c
Has(st, c, n) ==
    IF st.um THEN Str(n) \in ItemKeys(Items(st, c))
    ELSE \E i \in 1..Len(st.mongo[c]) : st.mongo[c][i]["_id"] = Oid(n)

\* that document
DocOf(st, c, n) ==
    IF st.um THEN ItemGet(Items(st, c), Str(n))
    ELSE st.mongo[c][CHOOSE i \in 1..Len(st.mongo[c]) : st.mongo[c][i]["_id"] = Oid(n)]

\* every stored document of collection c, in store order
Stored(st, c) == IF st.um THEN ItemValues(Items(st, c)) ELSE st.mongo[c]

\* the identifier as create_document returned it for token n
IdOf(st, n) == IF st.um THEN Str(n) ELSE Oid(n)

----------------------------------------------------------------------------
\* the result g of the read made right after a create that was passed `data`:
\* one document, equal to the caller's on every supplied field, with
\* created_at and updated_at present
IsRoundTrip(g, data) ==
    /\ g.err = ""
    /\ Len(g.docs) = 1
    /\ \A k \in DOMAIN data : k \in DOMAIN g.docs[1] /\ g.docs[1][k] = data[k]
    /\ {"created_at", "updated_at"} \subseteq DOMAIN g.docs[1]

RoundTripOn(data) ==
    \A c \in Collections, tok \in Tokens \ issued :
        LET r == create_document(State, now, c, data, tok)
        IN r.err = ""
           /\ IsRoundTrip(get_documents(r.st, c, FilterId(r.id), DefaultLimit), data)

----------------------------------------------------------------------------
\* C2 (as stated): the documents of a collection have pairwise distinct `_id`
\* values in every reachable state, and a create returns an identifier no
\* earlier create returned, adds exactly one document and leaves the
\* documents already stored as they were.
C2_Uniqueness ==
    \A c \in Collections :
        /\ \A i, j \in 1..Len(Stored(State, c)) :
              i # j => Stored(State, c)[i]["_id"] # Stored(State, c)[j]["_id"]
        /\ \A data \in CreateInputs(USE_MEMORY), tok \in Tokens \ issued :
              LET r == create_document(State, now, c, data, tok)
              IN /\ r.id \notin {IdOf(State, n) : n \in issued}
                 /\ Len(Stored(r.st, c)) = Len(Stored(State, c)) + 1
                 /\ SubSeq(Stored(r.st, c), 1, Len(Stored(State, c))) = Stored(State, c)

----------------------------------------------------------------------------
\* C3: for a stored document with identifier id, delete_document with filter
\* {"_id": id} returns 1, after which no read returns the document and the
\* same delete returns 0.
C3_IdempotentDelete ==
    \A c \in Collections, n \in Tokens :
        Has(State, c, n) =>
            \A x \in {Str(n), IdOf(State, n)} :
                LET f == FilterId(x)
                    d1 == delete_document(State, c, f)
                    d2 == delete_document(d1.st, c, f)
                    all0 == get_documents(State, c, FilterAll, DefaultLimit)
                    all1 == get_documents(d1.st, c, FilterAll, DefaultLimit)
                IN /\ d1.err = "" /\ d1.count = 1
                   /\ d2.err = "" /\ d2.count = 0
                   /\ d2.st = d1.st
                   /\ ~Has(d1.st, c, n)
                   /\ Len(all1.docs) = Len(all0.docs) - 1
                   /\ \A g \in {f, FilterIn(<<Str(n)>>)}, limit \in Limits \cup {DefaultLimit} :
                         get_documents(d1.st, c, g, limit).docs = <<>>

\* a delete has just returned 0 and a document created earlier is gone
C3_Witness ==
    /\ last.op = "delete" /\ last.err = "" /\ last.count = 0
    /\ \E n \in issued : \A c \in Collections : ~Has(State, c, n)

----------------------------------------------------------------------------
\* C4 (as stated): under the non-decreasing clock, no step of any sequence of
\* creates and updates, whatever fields the callers pass, decreases the
\* updated_at of a stored document.
C4_UpdatedAtMonotone ==
    [][\A c \in Collections, n \in Tokens :
          (Has(State, c, n) /\ Has(State, c, n)') =>
              DocOf(State, c, n)["updated_at"].v <= DocOf(State, c, n)'["updated_at"].v]_vars

\* C5 (as stated): no step changes the created_at of a document that stays stored.
C5_CreatedAtImmutable ==
    [][\A c \in Collections, n \in Tokens :
          (Has(State, c, n) /\ Has(State, c, n)') =>
              DocOf(State, c, n)'["created_at"] = DocOf(State, c, n)["created_at"]]_vars

\* C6 (as stated): the `_id` of a stored document is the identifier its
\* create returned, in every reachable state.
C6_IdImmutable ==
    \A c \in Collections, n \in Tokens :
        Has(State, c, n) => DocOf(State, c, n)["_id"] = IdOf(State, n)

\* C7 (as stated): in both modes the identifier create_document returns is a
\* string, and so is the `_id` of every document get_documents returns.
C7_IdsAreStrings ==
    /\ (last.op = "create" /\ last.err = "") => IsStr(last.id)
    /\ \A c \in Collections, f \in Filters, limit \in Limits \cup {DefaultLimit} :
          LET g == get_documents(State, c, f, limit)
          IN \A i \in 1..Len(g.docs) : IsStr(g.docs[i]["_id"])

----------------------------------------------------------------------------
\* the document as C9 describes it after update_document(c, {"_id": id}, data)
\* at the current time
Overridden(doc, data) == Merge(Merge(doc, data), "updated_at" :> Dt(now))

----------------------------------------------------------------------------
\* C10: update_document with filter {"_id": id} where no document has that
\* identifier returns 0 without an error, and every collection holds the
\* same documents as before.
C10_UpdateNotFound ==
    \A c \in Collections, n \in Tokens, data \in UpdateInputs :
        ~Has(State, c, n) =>
            \A x \in {Str(n), IdOf(State, n)} :
                LET r == update_document(State, now, c, FilterId(x), data)
                IN /\ r.err = "" /\ r.count = 0
                   /\ r.st.mongo = State.mongo
                   /\ \A c2 \in Collections : Items(r.st, c2) = Items(State, c2)

\* an update has just returned 0 without an error while a collection holds a
\* document and the other collection holds none
C10_Witness ==
    /\ last.op = "update" /\ last.err = "" /\ last.count = 0
    /\ \E c \in Collections : Len(Stored(State, c)) = 0
    /\ \E c \in Collections : Len(Stored(State, c)) > 0

----------------------------------------------------------------------------
\* Two deployments fed the same calls: one whose start-up ping failed (its
\* store is cols, its returns are kept in last) and one that reached the
\* server (its store is mongo).  Both run the sequence create, read, update,
\* read, delete, read, round after round, with the accepted filter shapes.

MemState == [um |-> TRUE, cols |-> cols, mongo |-> [c \in Collections |-> <<>>]]
NetState == [um |-> FALSE, cols |-> EmptyDoc, mongo |-> mongo]

AcceptedFilters ==
    {FilterAll} \cup {FilterId(x) : x \in IdStrings} \cup {FilterIn(xs) : xs \in InLists}

EqInit ==
    /\ USE_MEMORY = TRUE
    /\ cols = EmptyDoc
    /\ mongo = [c \in Collections |-> <<>>]
    /\ now = 0
    /\ issued = {}
    /\ last = NoCall
    /\ calls = <<>>

EqStore(op, rm, rn) ==
    /\ cols' = rm.st.cols
    /\ mongo' = rn.st.mongo
    /\ last' = Called(op, rm)
    /\ UNCHANGED <<USE_MEMORY, now, calls>>

EqCreate(c, data, tok) ==
    /\ last.op \in {"init", "read3"}
    /\ tok \notin issued
    /\ EqStore("create", create_document(MemState, now, c, data, tok),
                         create_document(NetState, now, c, data, tok))
    /\ issued' = issued \cup {tok}

EqRead(c, f, limit) ==
    /\ last.op \in {"create", "update", "delete"}
    /\ EqStore(IF last.op = "create" THEN "read1" ELSE IF last.op = "update" THEN "read2" ELSE "read3",
               get_documents(MemState, c, f, limit), get_documents(NetState, c, f, limit))
    /\ UNCHANGED issued

EqUpdate(c, f, data) ==
    /\ last.op = "read1"
    /\ EqStore("update", update_document(MemState, now, c, f, data),
                         update_document(NetState, now, c, f, data))
    /\ UNCHANGED issued

EqDelete(c, f) ==
    /\ last.op = "read2"
    /\ EqStore("delete", delete_document(MemState, c, f), delete_document(NetState, c, f))
    /\ UNCHANGED issued

EqNext ==
    \/ Tick
    \/ \E c \in Collections, data \in CreateInputs(FALSE), tok \in Tokens : EqCreate(c, data, tok)
    \/ \E c \in Collections, f \in AcceptedFilters, limit \in Limits : EqRead(c, f, limit)
    \/ \E c \in Collections, f \in AcceptedFilters, data \in UpdateInputs : EqUpdate(c, f, data)
    \/ \E c \in Collections, f \in AcceptedFilters : EqDelete(c, f)

SpecEquiv == EqInit /\ [][EqNext]_vars

\* what a caller observes of a call: the error, the count, and the returned
\* documents without their identifier values
NoId(doc) == [k \in DOMAIN doc \ {"_id"} |-> doc[k]]
Observed(r) ==
    [err |-> r.err, count |-> r.count, docs |-> [i \in 1..Len(r.docs) |-> NoId(r.docs[i])]]

\* C8 (as stated): at every point of the sequence the next call, with the same
\* inputs, is observed alike on the two backends.
C8_FallbackEquivalence ==
    /\ last.op \in {"init", "read3"} =>
          \A c \in Collections, data \in CreateInputs(FALSE), tok \in Tokens \ issued :
              Observed(create_document(MemState, now, c, data, tok))
                  = Observed(create_document(NetState, now, c, data, tok))
    /\ last.op \in {"create", "update", "delete"} =>
          \A c \in Collections, f \in AcceptedFilters, limit \in Limits \cup {DefaultLimit} :
              Observed(get_documents(MemState, c, f, limit))
                  = Observed(get_documents(NetState, c, f, limit))
    /\ last.op = "read1" =>
          \A c \in Collections, f \in AcceptedFilters, data \in UpdateInputs :
              Observed(update_document(MemState, now, c, f, data))
                  = Observed(update_document(NetState, now, c, f, data))
    /\ last.op = "read2" =>
          \A c \in Collections, f \in AcceptedFilters :
              Observed(delete_document(MemState, c, f)) = Observed(delete_document(NetState, c, f))

----------------------------------------------------------------------------
\* what the adapter's find gives get_documents before the truncation
AdapterFind(st, c, f) ==
    IF st.um THEN find(Items(st, c), inbound(st.um, f))
    ELSE mongo_find(st.mongo[c], inbound(st.um, f))

\* C11: for every filter, with m documents in the adapter's result, and every
\* limit >= 0, get_documents returns the first min(limit, m) of them
\* (serialized), hence never more than limit documents.
C11_ReadBoundedByLimit ==
    \A c \in Collections, f \in Filters, limit \in Limits \cup {DefaultLimit} :
        LET found == AdapterFind(State, c, f)
            m == Len(found)
            g == get_documents(State, c, f, limit)
        IN /\ g.err = ""
           /\ Len(g.docs) = (IF limit < m THEN limit ELSE m)
           /\ Len(g.docs) <= limit
           /\ \A i \in 1..Len(g.docs) : g.docs[i] = serialize(found[i])

\* a read has just returned MaxLimit documents while a collection holds more
\* than MaxLimit, of which a read of the whole collection gives the first MaxLimit
C11_Witness ==
    /\ last.op = "get" /\ last.err = "" /\ last.n = MaxLimit /\ MaxLimit > 0
    /\ \E c \in Collections :
          /\ Len(Stored(State, c)) > MaxLimit
          /\ Len(get_documents(State, c, FilterAll, MaxLimit).docs) = MaxLimit

----------------------------------------------------------------------------
\* lists of identifiers a caller may pass under "$in": stored and unknown
\* identifiers, repeated or not
ReadLists == UNION {[1..k -> IdStrings \cup {Str(0)}] : k \in 0..(MaxIn + 1)}

\* the positions of L that name a document stored in items
StoredAt(items, L) == {j \in 1..Len(L) : L[j] \in ItemKeys(items)}

\* C12: on the in-memory backend, get_documents with {"_id": {"$in": L}}
\* raises nothing and returns one document per position of L that names a
\* stored document, in the order of L, skipping the other positions; with no
\* such position the result is empty.
C12_InReadOrder ==
    USE_MEMORY =>
        \A c \in Collections, L \in ReadLists :
            LET items == Items(State, c)
                g == get_documents(State, c, FilterIn(L), DefaultLimit)
                at(i) == CHOOSE j \in StoredAt(items, L) :
                             Cardinality({j2 \in StoredAt(items, L) : j2 <= j}) = i
            IN /\ g.err = ""
               /\ Len(g.docs) = Cardinality(StoredAt(items, L))
               /\ \A i \in 1..Len(g.docs) : g.docs[i] = serialize(ItemGet(items, L[at(i)]))
               /\ (StoredAt(items, L) = {} => g.docs = <<>>)

\* a read has just returned on the in-memory backend, and a collection holds
\* two documents that a set-membership read naming the later one first, with
\* an unknown identifier in between, returns in the order of the list
C12_Witness ==
    /\ USE_MEMORY /\ last.op = "get" /\ last.err = "" /\ MaxIn + 1 >= 2
    /\ \E c \in Collections, n1, n2 \in Tokens :
          /\ n1 # n2 /\ Has(State, c, n1) /\ Has(State, c, n2)
          /\ ItemAt(Items(State, c), Str(n1)) < ItemAt(Items(State, c), Str(n2))
          /\ get_documents(State, c, FilterIn(<<Str(n2), Str(n1)>>), DefaultLimit).docs
                 = <<serialize(DocOf(State, c, n2)), serialize(DocOf(State, c, n1))>>

----------------------------------------------------------------------------
\* every document stored in st other than the one created under token n in
\* collection c is stored in st2 with the same value, and no collection other
\* than c holds anything else
OthersUnchanged(st, st2, c, n) ==
    /\ \A c2 \in Collections, n2 \in Tokens :
          (Has(st, c2, n2) /\ <<c2, n2>> # <<c, n>>) =>
              (Has(st2, c2, n2) /\ DocOf(st2, c2, n2) = DocOf(st, c2, n2))
    /\ \A c2 \in Collections \ {c} : Stored(st2, c2) = Stored(st, c2)
    /\ Len(Stored(st2, c)) <= Len(Stored(st, c))

\* C20: update_document and delete_document with filter {"_id": id} on a
\* collection leave every other document of it and every document of the
\* other collections as they were, and create_document leaves every document
\* stored before as it was.
C20_Frame ==
    \A c \in Collections :
        /\ \A n \in Tokens : \A x \in {Str(n), IdOf(State, n)} :
              /\ \A data \in UpdateInputs :
                    OthersUnchanged(State, update_document(State, now, c, FilterId(x), data).st, c, n)
              /\ OthersUnchanged(State, delete_document(State, c, FilterId(x)).st, c, n)
        /\ \A data \in CreateInputs(USE_MEMORY), tok \in Tokens \ issued :
              LET r == create_document(State, now, c, data, tok)
              IN /\ \A c2 \in Collections \ {c} : Stored(r.st, c2) = Stored(State, c2)
                 /\ Len(Stored(r.st, c)) = Len(Stored(State, c)) + 1
                 /\ SubSeq(Stored(r.st, c), 1, Len(Stored(State, c))) = Stored(State, c)
                 /\ \A c2 \in Collections, n2 \in Tokens :
                       Has(State, c2, n2) =>
                           (Has(r.st, c2, n2) /\ DocOf(r.st, c2, n2) = DocOf(State, c2, n2))

\* an update or a delete has just changed a collection that holds another
\* document, while the other collection holds a document too
C20_Witness ==
    /\ last.op \in {"update", "delete"} /\ last.err = "" /\ last.count = 1
    /\ \A c \in Collections : Len(Stored(State, c)) > 0

----------------------------------------------------------------------------
\* Start-up.  The module is imported with USE_MEMORY = False (line 18); the
\* block of lines 128-140 then selects the backend, and the CRUD helpers run
\* after it.

\* what can happen to _client.admin.command('ping') within the selection timeout
Pings == {"ok", "timeout", "refused"}

\* the block letting the failure out instead of falling back
initialize_raises(driver, ping) ==
    IF ~driver THEN [USE_MEMORY |-> FALSE, err |-> "RuntimeError"]
    ELSE IF ping # "ok" THEN [USE_MEMORY |-> FALSE, err |-> "ServerSelectionTimeoutError"]
    ELSE [USE_MEMORY |-> FALSE, err |-> ""]

\* try: (raise if MongoClient is None; connect; ping; db = _db)
\* except Exception: USE_MEMORY = True; db = _MemoryDB()
\* driver: the pymongo import of lines 6-13 succeeded
initialize(driver, ping) ==
    IF ~driver THEN [USE_MEMORY |-> TRUE, err |-> ""]
    ELSE IF ping # "ok" THEN [USE_MEMORY |-> TRUE, err |-> ""]
    ELSE [USE_MEMORY |-> FALSE, err |-> ""]

Importing == [op |-> "import", err |-> "", id |-> None, count |-> 0, n |-> 0]
Started == last.op # "import"

StartInit ==
    /\ USE_MEMORY = FALSE
    /\ cols = EmptyDoc
    /\ mongo = [c \in Collections |-> <<>>]
    /\ now = 0
    /\ issued = {}
    /\ last = Importing
    /\ calls = <<>>

Initialize(driver, ping) ==
    /\ ~Started
    /\ LET r == initialize(driver, ping)
       IN /\ USE_MEMORY' = r.USE_MEMORY
          /\ last' = [op |-> "startup", err |-> r.err, id |-> None, count |-> 0, n |-> 0]
    /\ UNCHANGED <<cols, mongo, now, issued, calls>>

StartNext ==
    \/ \E driver \in BOOLEAN, ping \in Pings : Initialize(driver, ping)
    \/ Started /\ Tick
    \/ Started /\ \E c \in Collections, data \in CreateInputs(USE_MEMORY), tok \in Tokens :
                      CreateDocument(c, data, tok)
    \/ Started /\ \E c \in Collections, f \in Filters, limit \in Limits : GetDocuments(c, f, limit)
    \/ Started /\ \E c \in Collections, f \in Filters, data \in UpdateInputs : UpdateDocument(c, f, data)
    \/ Started /\ \E c \in Collections, f \in Filters : DeleteDocument(c, f)

SpecStartup == StartInit /\ [][StartNext]_vars

\* C13: the start-up step selects the networked backend when the driver is
\* there and the ping succeeds and the in-memory backend on every failure,
\* without an error; no later step, failing calls included, changes the
\* selection.
C13_BackendFixed ==
    [][/\ \A driver \in BOOLEAN, ping \in Pings :
             Initialize(driver, ping) =>
                 (USE_MEMORY' = ~(driver /\ ping = "ok") /\ last'.err = "")
       /\ Started => USE_MEMORY' = USE_MEMORY]_vars

\* a call has just failed on the in-memory backend, selected at start-up, with
\* a document stored
C13_Witness ==
    /\ Started /\ USE_MEMORY /\ last.op = "update" /\ last.err = "TypeError"
    /\ \E c \in Collections : Len(Stored(State, c)) > 0

----------------------------------------------------------------------------
\* Concurrent callers of the in-memory backend.  The mapping of a collection
\* is a plain dict shared by every caller and the adapter takes no lock, so
\* the calls of threads interleave between the dict operations of the adapter
\* methods: the membership test, the lookup, each field assignment, the del,
\* each item of the iteration in _serialize.  calls.of[p] is the call of
\* caller p with its position and locals, calls.base the store when the first
\* of the calls began.

MaxCallers == 2
Callers == 1..MaxCallers

\* iteration order of the fields of a document created with a title and later
\* given an upvotes field (a dict iterates in insertion order)
FieldOrder == <<"title", "created_at", "updated_at", "_id", "upvotes">>
OrderOf(doc) == SelectSeq(FieldOrder, LAMBDA k : k \in DOMAIN doc)

Idle ==
    [op |-> "idle", pc |-> "idle", c |-> "", x |-> None, t |-> 0, tok |-> 0,
     data |-> EmptyDoc, todo |-> <<>>, pos |-> 0, size |-> 0, acc |-> EmptyDoc,
     held |-> EmptyDoc, err |-> "", count |-> 0, docs |-> <<>>]

Quiet == \A p \in Callers : calls.of[p].op = "idle"
AllDone == \A p \in Callers : calls.of[p].pc = "done"

ThreadInputs == {"title" :> Str(-1), "upvotes" :> IntV(1)}

ThInit ==
    /\ USE_MEMORY = TRUE
    /\ cols = EmptyDoc
    /\ mongo = [c \in Collections |-> <<>>]
    /\ now = 0
    /\ issued = {}
    /\ last = NoCall
    /\ calls = [base |-> State, of |-> [p \in Callers |-> Idle]]

\* a caller enters a CRUD helper: col = getattr(db, collection_name), the
\* timestamp and the payload are taken before the adapter method runs
Begin(p, op, c, x, data, tok) ==
    /\ calls.of[p].op = "idle"
    /\ cols' = MemoryDB_getattr(cols, c)
    /\ calls' = [base |-> IF Quiet THEN State ELSE calls.base,
                 of |-> [calls.of EXCEPT ![p] =
                            [Idle EXCEPT !.op = op, !.pc = op, !.c = c, !.x = x, !.t = now,
                                         !.tok = tok, !.data = data]]]
    /\ UNCHANGED <<USE_MEMORY, mongo, now, last>>

BeginCreate(p, c, data, tok) ==
    /\ tok \notin issued
    /\ Begin(p, "create", c, None, data, tok)
    /\ issued' = issued \cup {tok}

BeginRead(p, c, x) == Begin(p, "get", c, x, EmptyDoc, 0) /\ UNCHANGED issued
BeginUpdate(p, c, x, data) == Begin(p, "update", c, x, data, 0) /\ UNCHANGED issued
BeginDelete(p, c, x) == Begin(p, "delete", c, x, EmptyDoc, 0) /\ UNCHANGED issued

\* the call of caller p moves on, the mapping of its collection becomes items
Step(p, rec, items) ==
    /\ calls' = [calls EXCEPT !.of[p] = rec]
    /\ cols' = [cols EXCEPT ![calls.of[p].c] = items]
    /\ UNCHANGED <<USE_MEMORY, mongo, now, issued, last>>

Finish(rec, err, count, docs) ==
    [rec EXCEPT !.pc = "done", !.err = err, !.count = count, !.docs = docs]

\* create_document: payload and col.insert_one(payload), one dict store
InsertOne(p) ==
    LET rec == calls.of[p]
        payload == SetDefault(SetDefault(rec.data, "created_at", Dt(rec.t)), "updated_at", Dt(rec.t))
    IN /\ rec.pc = "create"
       /\ Step(p, Finish(rec, "", 0, <<>>), insert_one(cols[rec.c], payload, Str(rec.tok)).items)

\* find, line 42: `if val in self.items`
FindTest(p) ==
    LET rec == calls.of[p]
    IN /\ rec.pc = "get"
       /\ Step(p, IF rec.x \in ItemKeys(cols[rec.c]) THEN [rec EXCEPT !.pc = "find_get"]
                  ELSE Finish(rec, "", 0, <<>>),
               cols[rec.c])

\* find, line 43: `return [self.items[val]]`, a reference to the stored dict;
\* _serialize then starts to iterate over its items
FindGet(p) ==
    LET rec == calls.of[p]
    IN /\ rec.pc = "find_get"
       /\ Step(p, IF rec.x \in ItemKeys(cols[rec.c])
                  THEN [rec EXCEPT !.pc = "serialize", !.pos = 1,
                                   !.size = Cardinality(DOMAIN ItemGet(cols[rec.c], rec.x))]
                  ELSE Finish(rec, "KeyError", 0, <<>>),
               cols[rec.c])

\* _serialize, line 101: one `for k, v in doc.items()` step on the dict the
\* reader holds; the iterator raises RuntimeError when the dict changed size
SerializeItem(p) ==
    LET rec == calls.of[p]
        doc == IF rec.held # EmptyDoc THEN rec.held ELSE ItemGet(cols[rec.c], rec.x)
        k == OrderOf(doc)[rec.pos]
    IN /\ rec.pc = "serialize"
       /\ Step(p, IF Cardinality(DOMAIN doc) # rec.size THEN Finish(rec, "RuntimeError", 0, <<>>)
                  ELSE IF rec.pos > rec.size THEN Finish(rec, "", 0, <<rec.acc>>)
                  ELSE [rec EXCEPT !.pos = rec.pos + 1,
                                   !.acc = Merge(rec.acc, serialize(k :> doc[k]))],
               cols[rec.c])

\* the fields of the $set payload in the order the assignments are made
PayloadOrder(data) ==
    SelectSeq(FieldOrder, LAMBDA k : k \in DOMAIN data \ {"updated_at"}) \o <<"updated_at">>

\* update_one, line 54: `if target_id in self.items`
UpdateTest(p) ==
    LET rec == calls.of[p]
    IN /\ rec.pc = "update"
       /\ Step(p, IF rec.x \in ItemKeys(cols[rec.c])
                  THEN [rec EXCEPT !.pc = "assign", !.todo = PayloadOrder(rec.data)]
                  ELSE Finish(rec, "", 0, <<>>),
               cols[rec.c])

\* update_one, line 66: one `self.items[target_id][k] = v`
UpdateAssign(p) ==
    LET rec == calls.of[p]
        payload == Merge(rec.data, "updated_at" :> Dt(rec.t))
        k == Head(rec.todo)
    IN /\ rec.pc = "assign"
       /\ IF rec.x \in ItemKeys(cols[rec.c])
          THEN Step(p, IF Tail(rec.todo) = <<>> THEN Finish(rec, "", 1, <<>>)
                       ELSE [rec EXCEPT !.todo = Tail(rec.todo)],
                    ItemSet(cols[rec.c], rec.x, Merge(ItemGet(cols[rec.c], rec.x), k :> payload[k])))
          ELSE Step(p, Finish(rec, "KeyError", 0, <<>>), cols[rec.c])

\* delete_one, line 82: `if tid in self.items`
DeleteTest(p) ==
    LET rec == calls.of[p]
    IN /\ rec.pc = "delete"
       /\ Step(p, IF rec.x \in ItemKeys(cols[rec.c]) THEN [rec EXCEPT !.pc = "del"]
                  ELSE Finish(rec, "", 0, <<>>),
               cols[rec.c])

\* delete_one, line 83: `del self.items[tid]`; a reader iterating over the
\* removed dict keeps it
DeleteDel(p) ==
    LET rec == calls.of[p]
        items == cols[rec.c]
        holds(q) == /\ q # p /\ calls.of[q].pc = "serialize" /\ calls.of[q].held = EmptyDoc
                    /\ calls.of[q].c = rec.c /\ calls.of[q].x = rec.x
    IN /\ rec.pc = "del"
       /\ IF rec.x \in ItemKeys(items)
          THEN /\ cols' = [cols EXCEPT ![rec.c] = ItemDel(items, rec.x)]
               /\ calls' = [calls EXCEPT !.of =
                     [q \in Callers |->
                        IF q = p THEN Finish(rec, "", 1, <<>>)
                        ELSE IF holds(q) THEN [calls.of[q] EXCEPT !.held = ItemGet(items, rec.x)]
                        ELSE calls.of[q]]]
               /\ UNCHANGED <<USE_MEMORY, mongo, now, issued, last>>
          ELSE Step(p, Finish(rec, "KeyError", 0, <<>>), items)

ThNext ==
    \/ Tick
    \/ Quiet /\ \E c \in Collections, tok \in Tokens : CreateDocument(c, Titled, tok)
    \/ \E p \in Callers, c \in Collections, tok \in Tokens : BeginCreate(p, c, Titled, tok)
    \/ \E p \in Callers, c \in Collections, x \in IdStrings : BeginRead(p, c, x)
    \/ \E p \in Callers, c \in Collections, x \in IdStrings, data \in ThreadInputs :
          BeginUpdate(p, c, x, data)
    \/ \E p \in Callers, c \in Collections, x \in IdStrings : BeginDelete(p, c, x)
    \/ \E p \in Callers : InsertOne(p)
    \/ \E p \in Callers : FindTest(p)
    \/ \E p \in Callers : FindGet(p)
    \/ \E p \in Callers : SerializeItem(p)
    \/ \E p \in Callers : UpdateTest(p)
    \/ \E p \in Callers : UpdateAssign(p)
    \/ \E p \in Callers : DeleteTest(p)
    \/ \E p \in Callers : DeleteDel(p)

SpecThreads == ThInit /\ [][ThNext]_vars

\* the call of record rec made as one undivided call on store st
Apply(st, rec) ==
    IF rec.op = "create" THEN create_document(st, rec.t, rec.c, rec.data, rec.tok)
    ELSE IF rec.op = "update" THEN update_document(st, rec.t, rec.c, FilterId(rec.x), rec.data)
    ELSE IF rec.op = "delete" THEN delete_document(st, rec.c, FilterId(rec.x))
    ELSE IF rec.op = "get" THEN get_documents(st, rec.c, FilterId(rec.x), DefaultLimit)
    ELSE Ret(st, "", None, 0, <<>>)

\* the serial orders of the callers' calls
Orders == {o \in [Callers -> Callers] : \A i, j \in Callers : i # j => o[i] # o[j]}

\* the store after the first n calls of order o, made one after the other
\* from the store the concurrent calls started on
RECURSIVE After(_, _)
After(o, n) == IF n = 0 THEN calls.base ELSE Apply(After(o, n - 1), calls.of[o[n]]).st

\* C14 (as stated): the document a read returns, whatever update of it runs
\* at the same time, is the whole document as it is before or after whole
\* calls: the stored document in the store reached by some of the calls made
\* one after the other.
C14_NoPartialVisibility ==
    \A p \in Callers :
        LET rec == calls.of[p]
        IN (rec.op = "get" /\ rec.pc = "done" /\ rec.err = "" /\ rec.docs # <<>>) =>
              \E o \in Orders, n \in 0..MaxCallers :
                  /\ rec.x \in ItemKeys(Items(After(o, n), rec.c))
                  /\ rec.docs[1] = serialize(ItemGet(Items(After(o, n), rec.c), rec.x))

\* C15 (as stated): when concurrent insert, update and delete calls have all
\* returned, none has raised an error, and the mapping and the returned
\* counts are those of the calls made one after the other in some order.
C15_ConcurrentWriters ==
    (AllDone /\ \A p \in Callers : calls.of[p].op \in {"create", "update", "delete"}) =>
        /\ \A p \in Callers : calls.of[p].err = ""
        /\ \E o \in Orders :
              /\ cols = After(o, MaxCallers).cols
              /\ \A n \in 1..MaxCallers :
                    calls.of[o[n]].count = Apply(After(o, n - 1), calls.of[o[n]]).count

----------------------------------------------------------------------------
\* The adapter driven directly with update-operator payloads.  An update is
\* [inc, push, set], each the items of the "$inc", "$push", "$set" dict in
\* their order (a sequence of [k, v]), empty when the operator is absent.

MaxVotes == 2
MaxList == 2

\* int(v): an int as it is, ValueError for a text that is no number,
\* TypeError for a datetime, None or a list
int(v) ==
    IF v.t = "int" THEN [err |-> "", n |-> v.v]
    ELSE IF v.t = "str" THEN [err |-> "ValueError", n |-> 0]
    ELSE [err |-> "TypeError", n |-> 0]

\* lines 57-58: for k, v in update["$inc"].items():
\*     doc[k] = int(doc.get(k, 0)) + int(v)
\* the first failing conversion raises, the assignments before it stay
RECURSIVE apply_inc(_, _)
apply_inc(doc, incs) ==
    IF incs = <<>> THEN [doc |-> doc, err |-> ""]
    ELSE LET k == Head(incs).k
             old == int(IF k \in DOMAIN doc THEN doc[k] ELSE IntV(0))
             by == int(Head(incs).v)
         IN IF old.err # "" THEN [doc |-> doc, err |-> old.err]
            ELSE IF by.err # "" THEN [doc |-> doc, err |-> by.err]
            ELSE apply_inc(Merge(doc, k :> IntV(old.n + by.n)), Tail(incs))

\* lines 60-63: for k, v in update["$push"].items():
\*     arr = doc.setdefault(k, []); if isinstance(arr, list): arr.append(v)
RECURSIVE apply_push(_, _)
apply_push(doc, pushes) ==
    IF pushes = <<>> THEN doc
    ELSE LET k == Head(pushes).k
             arr == IF k \in DOMAIN doc THEN doc[k] ELSE ListV(<<>>)
         IN apply_push(IF arr.t = "list" THEN Merge(doc, k :> ListV(Append(arr.v, Head(pushes).v)))
                       ELSE doc,
                       Tail(pushes))

\* lines 65-66: for k, v in update["$set"].items(): doc[k] = v
RECURSIVE apply_set(_, _)
apply_set(doc, sets) ==
    IF sets = <<>> THEN doc
    ELSE apply_set(Merge(doc, Head(sets).k :> Head(sets).v), Tail(sets))

\* update_one(filter_dict, update) with the three operators, lines 48-68;
\* update_one above is this method for update = {"$set": fields}
update_one_ops(items, f, update) ==
    IF f.kind = "in"
    THEN [items |-> items, matched_count |-> 0, modified_count |-> 0, err |-> "TypeError"]
    ELSE IF f.kind = "eq" /\ f.val \in ItemKeys(items)
    THEN LET inc == apply_inc(ItemGet(items, f.val), update.inc)
         IN IF inc.err # ""
            THEN [items |-> ItemSet(items, f.val, inc.doc), matched_count |-> 1,
                  modified_count |-> 0, err |-> inc.err]
            ELSE [items |-> ItemSet(items, f.val, apply_set(apply_push(inc.doc, update.push), update.set)),
                  matched_count |-> 1, modified_count |-> 1, err |-> ""]
    ELSE [items |-> items, matched_count |-> 0, modified_count |-> 0, err |-> ""]

Pair(k, v) == [k |-> k, v |-> v]
NoOps == [inc |-> <<>>, push |-> <<>>, set |-> <<>>]

\* documents and payloads handed to the adapter
OpsDocs == {EmptyDoc, "upvotes" :> IntV(0), "upvotes" :> Str(0), "tags" :> ListV(<<>>)}
IncInputs == {<<>>, <<Pair("upvotes", IntV(1))>>}
PushInputs == {<<>>, <<Pair("tags", Str(0))>>, <<Pair("upvotes", Str(0))>>}
SetInputs == {<<>>, <<Pair("upvotes", IntV(MaxVotes))>>, <<Pair("tags", Str(-1))>>}
OpsUpdates == {[inc |-> i, push |-> q, set |-> z] : i \in IncInputs, q \in PushInputs, z \in SetInputs}

\* counters and lists stay within the bounds
Bounded(doc) ==
    \A k \in DOMAIN doc :
        /\ doc[k].t = "int" => doc[k].v <= MaxVotes
        /\ doc[k].t = "list" => Len(doc[k].v) <= MaxList

OpsInit ==
    /\ USE_MEMORY = TRUE
    /\ cols = EmptyDoc
    /\ mongo = [c \in Collections |-> <<>>]
    /\ now = 0
    /\ issued = {}
    /\ last = NoCall
    /\ calls = <<>>

\* db.idea.insert_one(doc)
OpsInsert(doc, tok) ==
    /\ tok \notin issued
    /\ LET cs == MemoryDB_getattr(cols, "idea")
           res == insert_one(cs["idea"], doc, Str(tok))
       IN /\ cols' = [cs EXCEPT !["idea"] = res.items]
          /\ last' = [op |-> "insert_one", err |-> "", id |-> res.inserted_id, count |-> 0, n |-> 0]
    /\ issued' = issued \cup {tok}
    /\ UNCHANGED <<USE_MEMORY, mongo, now, calls>>

\* db.idea.update_one({"_id": x}, update)
OpsUpdate(x, update) ==
    LET cs == MemoryDB_getattr(cols, "idea")
        res == update_one_ops(cs["idea"], FilterId(x), update)
    IN /\ \A i \in 1..Len(res.items) : Bounded(res.items[i].doc)
       /\ cols' = [cs EXCEPT !["idea"] = res.items]
       /\ last' = [op |-> "update_one", err |-> res.err, id |-> None,
                   count |-> res.modified_count, n |-> res.matched_count]
       /\ UNCHANGED <<USE_MEMORY, mongo, now, issued, calls>>

OpsNext ==
    \/ \E doc \in OpsDocs, tok \in Tokens : OpsInsert(doc, tok)
    \/ \E x \in IdStrings, update \in OpsUpdates : OpsUpdate(x, update)

SpecOps == OpsInit /\ [][OpsNext]_vars

\* the operators as documented: increment adds to the number, a missing or
\* non-numeric value counting as zero; append pushes onto the sequence,
\* created when absent, and is ignored on a value that is no sequence; set
\* replaces
RECURSIVE Incremented(_, _)
Incremented(doc, incs) ==
    IF incs = <<>> THEN doc
    ELSE LET k == Head(incs).k
             old == IF k \in DOMAIN doc /\ doc[k].t = "int" THEN doc[k].v ELSE 0
         IN Incremented(Merge(doc, k :> IntV(old + Head(incs).v.v)), Tail(incs))

RECURSIVE Appended(_, _)
Appended(doc, pushes) ==
    IF pushes = <<>> THEN doc
    ELSE LET k == Head(pushes).k
         IN Appended(IF k \notin DOMAIN doc THEN Merge(doc, k :> ListV(<<Head(pushes).v>>))
                     ELSE IF doc[k].t = "list"
                          THEN Merge(doc, k :> ListV(Append(doc[k].v, Head(pushes).v)))
                     ELSE doc,
                     Tail(pushes))

RECURSIVE Replaced(_, _)
Replaced(doc, sets) ==
    IF sets = <<>> THEN doc
    ELSE Replaced([k \in DOMAIN doc \cup {Head(sets).k} |->
                      IF k = Head(sets).k THEN Head(sets).v ELSE doc[k]], Tail(sets))

\* C16 (as stated): update_one on a stored document, whatever operators the
\* payload carries, leaves it as the increments, then the appends, then the
\* sets make it; in particular every field named in $set ends with the $set
\* value.
C16_OperatorOrder ==
    \A x \in ItemKeys(Items(State, "idea")), update \in OpsUpdates :
        LET items == Items(State, "idea")
            res == update_one_ops(items, FilterId(x), update)
        IN /\ res.err = ""
           /\ ItemGet(res.items, x)
                  = Replaced(Appended(Incremented(ItemGet(items, x), update.inc), update.push), update.set)
           /\ \A i \in 1..Len(update.set) : ItemGet(res.items, x)[update.set[i].k] = update.set[i].v

\* C17 (as stated): update_one with {"$inc": {k: v}} on a stored document
\* whose field k is absent or holds a value that is no number raises nothing,
\* reports one matched and one modified document and leaves field k equal to v.
C17_IncOnMissingOrNonNumeric ==
    \A x \in ItemKeys(Items(State, "idea")), k \in {"upvotes", "tags"} :
        LET items == Items(State, "idea")
            doc == ItemGet(items, x)
            res == update_one_ops(items, FilterId(x), [NoOps EXCEPT !.inc = <<Pair(k, IntV(1))>>])
        IN (k \notin DOMAIN doc \/ doc[k].t # "int") =>
              /\ res.err = ""
              /\ res.matched_count = 1 /\ res.modified_count = 1
              /\ ItemGet(res.items, x)[k] = IntV(1)

----------------------------------------------------------------------------
\* Documents with nested values: identifiers at the top level, in a list, in
\* a nested document, in a document inside a list and in a list inside a
\* nested document, next to timestamps and texts.

NestedInputs ==
    {"ref" :> Oid(1),
     "tags" :> ListV(<<Oid(1), Str(0), Dt(0)>>),
     "meta" :> DictV(("ref" :> Oid(2)) @@ ("at" :> Dt(0))),
     "meta" :> DictV("refs" :> ListV(<<Oid(1)>>)),
     "comments" :> ListV(<<DictV(("author" :> Oid(1)) @@ ("text" :> Str(0)))>>),
     "comments" :> ListV(<<DictV("text" :> Str(0))>>)}

NestedNext ==
    \/ Tick
    \/ \E c \in Collections, data \in NestedInputs, tok \in Tokens : CreateDocument(c, data, tok)
    \/ \E c \in Collections, f \in Filters, limit \in Limits : GetDocuments(c, f, limit)
    \/ \E c \in Collections, f \in Filters : DeleteDocument(c, f)

SpecNested == Init /\ [][NestedNext]_vars

\* a value with every identifier in it, at any depth, in its string form
RECURSIVE Canonical(_)
Canonical(v) ==
    IF IsObjectId(v) THEN StrOfOid(v)
    ELSE IF v.t = "list" THEN ListV([i \in 1..Len(v.v) |-> Canonical(v.v[i])])
    ELSE IF v.t = "dict" THEN DictV([k \in DOMAIN v.v |-> Canonical(v.v[k])])
    ELSE v

\* C18 (as stated): every document get_documents returns is the stored
\* document with every identifier in it, at any depth, replaced by its string
\* form and every other value as it is stored.
C18_CompleteCanonicalization ==
    \A c \in Collections, f \in Filters :
        LET found == AdapterFind(State, c, f)
            g == get_documents(State, c, f, DefaultLimit)
        IN \A i \in 1..Len(g.docs) :
              g.docs[i] = [k \in DOMAIN found[i] |-> Canonical(found[i][k])]

----------------------------------------------------------------------------
\* The upvote handler of the service (main.py): requests read the idea, add
\* one to the count they read and write the sum back; each call of a CRUD
\* helper is one step, and the steps of the requests interleave.
\* calls[r] is request r with its position and locals.

MaxRequests == 2
Requests == 1..MaxRequests

NoRequest == [pc |-> "idle", idea_id |-> None, new_votes |-> 0, err |-> ""]

\* create_idea: the idea starts with upvotes 0 and no comments
IdeaData == ("title" :> Str(0)) @@ ("upvotes" :> IntV(0)) @@ ("comments" :> ListV(<<>>))

UpInit ==
    /\ USE_MEMORY \in BOOLEAN
    /\ cols = EmptyDoc
    /\ mongo = [c \in Collections |-> <<>>]
    /\ now = 0
    /\ issued = {}
    /\ last = NoCall
    /\ calls = [r \in Requests |-> NoRequest]

\* create_idea, lines 55-67: create_document, then the read of the new idea
CreateIdea(tok) ==
    /\ tok \notin issued
    /\ LET r == create_document(State, now, "idea", Merge(IdeaData, "created_at" :> Dt(now)), tok)
           g == get_documents(r.st, "idea", FilterId(r.id), 1)
       IN /\ cols' = g.st.cols
          /\ mongo' = g.st.mongo
          /\ last' = Called("create_idea", [g EXCEPT !.err = IF g.docs = <<>> THEN "500" ELSE "", !.id = r.id])
    /\ issued' = issued \cup {tok}
    /\ UNCHANGED <<USE_MEMORY, now, calls>>

\* upvote_idea, lines 73-77: the read, 404 when there is no such idea,
\* new_votes = int(item.get("upvotes", 0)) + 1
UpvoteRead(r, idea_id) ==
    /\ calls[r].pc = "idle"
    /\ LET g == get_documents(State, "idea", FilterId(idea_id), 1)
           votes == int(IF "upvotes" \in DOMAIN g.docs[1] THEN g.docs[1]["upvotes"] ELSE IntV(0))
       IN /\ cols' = g.st.cols
          /\ calls' = [calls EXCEPT ![r] =
                IF g.docs = <<>> THEN [@ EXCEPT !.pc = "done", !.idea_id = idea_id, !.err = "404"]
                ELSE IF votes.err # "" THEN [@ EXCEPT !.pc = "done", !.idea_id = idea_id, !.err = votes.err]
                ELSE [@ EXCEPT !.pc = "write", !.idea_id = idea_id, !.new_votes = votes.n + 1]]
    /\ UNCHANGED <<USE_MEMORY, mongo, now, issued, last>>

\* upvote_idea, line 79: update_document("idea", {"_id": idea_id}, {"upvotes": new_votes})
UpvoteWrite(r) ==
    /\ calls[r].pc = "write"
    /\ LET u == update_document(State, now, "idea", FilterId(calls[r].idea_id),
                                "upvotes" :> IntV(calls[r].new_votes))
       IN /\ cols' = u.st.cols
          /\ mongo' = u.st.mongo
          /\ calls' = [calls EXCEPT ![r] = IF u.err # "" THEN [@ EXCEPT !.pc = "done", !.err = u.err]
                                           ELSE [@ EXCEPT !.pc = "reread"]]
    /\ UNCHANGED <<USE_MEMORY, now, issued, last>>

\* upvote_idea, lines 80-81: the updated idea is read and returned
UpvoteReturn(r) ==
    /\ calls[r].pc = "reread"
    /\ LET g == get_documents(State, "idea", FilterId(calls[r].idea_id), 1)
       IN /\ cols' = g.st.cols
          /\ calls' = [calls EXCEPT ![r] = [@ EXCEPT !.pc = "done",
                                              !.err = IF g.docs = <<>> THEN "IndexError" ELSE ""]]
    /\ UNCHANGED <<USE_MEMORY, mongo, now, issued, last>>

UpNext ==
    \/ Tick
    \/ \E tok \in Tokens : CreateIdea(tok)
    \/ \E r \in Requests, idea_id \in IdStrings : UpvoteRead(r, idea_id)
    \/ \E r \in Requests : UpvoteWrite(r)
    \/ \E r \in Requests : UpvoteReturn(r)

SpecUpvote == UpInit /\ [][UpNext]_vars

\* the upvote requests on the idea of token n that returned the updated idea
Upvoted(n) == {r \in Requests : calls[r].pc = "done" /\ calls[r].err = "" /\ calls[r].idea_id = Str(n)}

\* C19 (as stated): once every upvote request made has returned, the upvotes
\* of an idea are its initial upvotes (0) plus the number of requests on it
\* that completed successfully.
C19_NoLostUpvote ==
    (\A r \in Requests : calls[r].pc \in {"idle", "done"}) =>
        \A n \in Tokens :
            Has(State, "idea", n) =>
                DocOf(State, "idea", n)["upvotes"] = IntV(Cardinality(Upvoted(n)))

====
